---- MODULE Spec2Model ----
(***************************************************************************)
(* A model of asr/aspire.py: the ASpIRE data preparation pipeline          *)
(* (split_wav, get_transcripts, get_alignments, prepare_data,              *)
(* reconstruct_manifest), the frame arithmetic (_samples2frames) and the   *)
(* dataset view (class Aspire).                                            *)
(*                                                                         *)
(* Conventions.  A Python str is a sequence of one-character strings.  A   *)
(* Python float that holds a time in seconds is an exact rational n/TimeDen*)
(* (floating-point rounding is not modelled).  A raised exception is the   *)
(* name of its class; "none" means the call returned.                      *)
(***************************************************************************)
EXTENDS Integers, Sequences, FiniteSets, TLC

VARIABLES
    p,          \* utils.params: SAMPLE_RATE, WINDOW_SIZE, WINDOW_SHIFT, FRAME_MARGIN
    probe,      \* FrameMath: two sample counts and the frame counts computed for them
    tables,     \* Kaldi inputs: segments, wav header, text lines, alignment streams
    disk,       \* the files under the target directory: path -> content
    ret,        \* the last pipeline call: function, returned manifest, exception
    csv,        \* train.csv and dev.csv: "absent" or the set of lines written
    session,    \* manifests returned by earlier split_wav / get_alignments calls
    views,      \* Aspire instances: mode, data_size, entries, entry_frames
    result      \* the last Aspire.__getitem__ call: audio, labels, exception

vars == <<p, probe, tables, disk, ret, csv, session, views, result>>

None == "none"

(***************************************************************************)
(* Bounds of the model.                                                    *)
(***************************************************************************)
MaxProbeSamples == 14   \* FrameMath: sample counts 0..MaxProbeSamples
MaxShift == 3           \* window shift in samples, 1..MaxShift
MaxWindow == 3          \* window size in samples, 1..MaxWindow
MaxMargin == 2          \* FRAME_MARGIN, 0..MaxMargin

(***************************************************************************)
(* utils.params and the three module constants derived from it.            *)
(***************************************************************************)
Params == [SAMPLE_RATE : {1}, WINDOW_SIZE : 1..MaxWindow,
           WINDOW_SHIFT : 1..MaxShift, FRAME_MARGIN : 0..MaxMargin]

WIN_SAMP_SIZE == p.SAMPLE_RATE * p.WINDOW_SIZE

WIN_SAMP_SHIFT == p.SAMPLE_RATE * p.WINDOW_SHIFT

SAMPLE_MARGIN == WIN_SAMP_SHIFT * p.FRAME_MARGIN

(***************************************************************************)
(* _samples2frames: Python's // is floor division, as is \div.             *)
(***************************************************************************)
Samples2FramesReversed(samples) ==
    LET num_samples == samples - 2 * SAMPLE_MARGIN
    IN  ((WIN_SAMP_SIZE - num_samples) \div WIN_SAMP_SHIFT) + 1

_samples2frames(samples) ==
    LET num_samples == samples - 2 * SAMPLE_MARGIN
    IN  ((num_samples - WIN_SAMP_SIZE) \div WIN_SAMP_SHIFT) + 1

(***************************************************************************)
(* Python str operations on sequences of characters.                       *)
(***************************************************************************)
Range(s) == {s[i] : i \in DOMAIN s}

UpperCase == <<"A","B","C","D","E","F","G","H","I","J","K","L","M",
               "N","O","P","Q","R","S","T","U","V","W","X","Y","Z">>

LowerCase == <<"a","b","c","d","e","f","g","h","i","j","k","l","m",
               "n","o","p","q","r","s","t","u","v","w","x","y","z">>

Digits == <<"0","1","2","3","4","5","6","7","8","9">>

\* str.lower(), one character
LowerChar(c) ==
    IF c \in Range(UpperCase)
    THEN LowerCase[CHOOSE i \in DOMAIN UpperCase : UpperCase[i] = c]
    ELSE c

\* str.lower()
Lower(text) == [i \in DOMAIN text |-> LowerChar(text[i])]

Whitespace == {" ", "\n", "\t"}

RECURSIVE LStrip(_)
LStrip(s) == IF s # <<>> /\ s[1] \in Whitespace THEN LStrip(Tail(s)) ELSE s

RECURSIVE RStrip(_)
RStrip(s) ==
    IF s # <<>> /\ s[Len(s)] \in Whitespace
    THEN RStrip(SubSeq(s, 1, Len(s) - 1)) ELSE s

\* str.strip()
Strip(s) == LStrip(RStrip(s))

\* s.split(" ", 1): one or two parts, cut at the first space
SplitOnce(s) ==
    IF " " \in Range(s)
    THEN LET i == CHOOSE k \in DOMAIN s :
                      s[k] = " " /\ \A j \in 1..(k - 1) : s[j] # " "
         IN  <<SubSeq(s, 1, i - 1), SubSeq(s, i + 1, Len(s))>>
    ELSE <<s>>

\* s[a:b] with 0 <= a <= b, Python slicing (clipped to the length)
Slice(s, a, b) ==
    SubSeq(s, a + 1, IF b < Len(s) THEN b ELSE Len(s))

\* str.replace(old, new): every non-overlapping occurrence, left to right
RECURSIVE Replace(_, _, _)
Replace(s, old, new) ==
    IF Len(s) < Len(old) THEN s
    ELSE IF SubSeq(s, 1, Len(old)) = old
         THEN new \o Replace(SubSeq(s, Len(old) + 1, Len(s)), old, new)
         ELSE <<s[1]>> \o Replace(Tail(s), old, new)

\* int() of a string of decimal digits (the characters [6:11) of every
\* utterance id are digits)
RECURSIVE ParseInt(_)
ParseInt(s) ==
    IF s = <<>> THEN 0
    ELSE 10 * ParseInt(SubSeq(s, 1, Len(s) - 1))
         + (CHOOSE d \in 0..9 : Digits[d + 1] = s[Len(s)])

(***************************************************************************)
(* strip_text                                                              *)
(***************************************************************************)
mask == LowerCase \o <<"'", "-", " ">>

InMask(x) == x \in Range(mask)

StripTextNoLower(text) == SelectSeq(text, InMask)

strip_text(text) == SelectSeq(Lower(text), InMask)

(***************************************************************************)
(* The target directory and the files in it.  A file's content is          *)
(* [kind |-> "wav", nframes], [kind |-> "txt", text] or                    *)
(* [kind |-> "phn", lines].                                                *)
(***************************************************************************)
\* str(Path(target_dir) / uttid[6:9] / (uttid + ext))
UttPath(target_dir, uttid, ext) ==
    target_dir \o <<"/">> \o Slice(uttid, 6, 9) \o <<"/">> \o uttid \o ext

WriteFile(d, path, content) ==
    [q \in (DOMAIN d) \cup {path} |-> IF q = path THEN content ELSE d[q]]

\* dict assignment manifest[k] = v
Put(m, k, v) == [q \in (DOMAIN m) \cup {k} |-> IF q = k THEN v ELSE m[q]]

EmptyMap == [q \in {} |-> None]

(***************************************************************************)
(* get_transcripts: the loop over the lines of the text table.  The state  *)
(* of the loop is the disk, the manifest so far and the exception raised.  *)
(***************************************************************************)
RECURSIVE TranscriptLoop(_, _, _, _)
TranscriptLoop(lines, target_dir, d, manifest) ==
    IF lines = <<>> THEN [disk |-> d, manifest |-> manifest, exc |-> None]
    ELSE LET split == SplitOnce(Strip(lines[1]))
         IN  IF Len(split) # 2
             THEN \* uttid, text = [one part]: unpacking fails
                  [disk |-> d, manifest |-> manifest, exc |-> "ValueError"]
             ELSE LET uttid == split[1]
                      text == strip_text(split[2])
                      txt_file == UttPath(target_dir, uttid, <<".","t","x","t">>)
                  IN  TranscriptLoop(Tail(lines), target_dir,
                          WriteFile(d, txt_file,
                                    [kind |-> "txt", text |-> text \o <<"\n">>]),
                          Put(manifest, uttid, <<txt_file, text>>))

get_transcripts(lines, target_dir, d) ==
    TranscriptLoop(lines, target_dir, d, EmptyMap)

(***************************************************************************)
(* split_wav.  A segment is [uttid, wavid, start, end]; start and end are  *)
(* numerators of times in seconds over TimeDen.  wav.scp is the sequence   *)
(* of its wavids; every decoded recording has the header tables.header     *)
(* (fr = getframerate(), nf = getnframes()).                               *)
(***************************************************************************)
TimeDen == 2

\* int(x) of the float x = num / den, den > 0: truncation toward zero
IntOf(num, den) ==
    IF num >= 0 THEN num \div den ELSE -((-num) \div den)

\* fs, fe = int(fr * start - SAMPLE_MARGIN), int(fr * end + SAMPLE_MARGIN)
SegmentRange(fr, start, end) ==
    <<IntOf(fr * start - SAMPLE_MARGIN * TimeDen, TimeDen),
      IntOf(fr * end + SAMPLE_MARGIN * TimeDen, TimeDen)>>

OutOfRangeOffByOne(fs, fe, nf) == fs < 0 \/ fe >= nf

\* if fs < 0 or fe > nf: continue
OutOfRange(fs, fe, nf) == fs < 0 \/ fe > nf

\* segments[wavid]: the segments of one recording, in file order
SegmentsOf(segments, wavid) ==
    SelectSeq(segments, LAMBDA g : g.wavid = wavid)

RECURSIVE SegmentLoop(_, _, _, _, _)
SegmentLoop(segs, header, target_dir, d, manifest) ==
    IF segs = <<>> THEN [disk |-> d, manifest |-> manifest]
    ELSE LET g == segs[1]
             range == SegmentRange(header.fr, g.start, g.end)
             fs == range[1]
             fe == range[2]
             wav_file == UttPath(target_dir, g.uttid, <<".","w","a","v">>)
         IN  IF OutOfRange(fs, fe, header.nf)
             THEN SegmentLoop(Tail(segs), header, target_dir, d, manifest)
             ELSE SegmentLoop(Tail(segs), header, target_dir,
                      WriteFile(d, wav_file, [kind |-> "wav", nframes |-> fe - fs]),
                      Put(manifest, g.uttid, <<wav_file, fe - fs>>))

RECURSIVE WavScpLoop(_, _, _, _, _, _)
WavScpLoop(wavscp, segments, header, target_dir, d, manifest) ==
    IF wavscp = <<>> THEN [disk |-> d, manifest |-> manifest, exc |-> None]
    ELSE LET wavid == wavscp[1]
             mine == SegmentsOf(segments, wavid)
             done == IF mine = <<>>      \* if not wavid in segments: continue
                     THEN [disk |-> d, manifest |-> manifest]
                     ELSE SegmentLoop(mine, header, target_dir, d, manifest)
         IN  WavScpLoop(Tail(wavscp), segments, header, target_dir,
                        done.disk, done.manifest)

split_wav(segments, wavscp, header, target_dir, d) ==
    WavScpLoop(wavscp, segments, header, target_dir, d, EmptyMap)

(***************************************************************************)
(* get_alignments.  The stdout of ali-to-phones for one archive is a       *)
(* sequence of records: [kind |-> "rec", uttid, phones] is a string token  *)
(* followed by an int vector, [kind |-> "bad", uttid] a string token       *)
(* followed by bytes that are no int vector (a truncated record).          *)
(* utils.kaldi_io is modelled from its interface: read_string fails with   *)
(* ValueError when no token is left, read_vec_int fails on a malformed     *)
(* vector.                                                                 *)
(***************************************************************************)
read_string(stream) ==
    IF stream = <<>> THEN [exc |-> "ValueError", value |-> <<>>]
    ELSE [exc |-> None, value |-> stream[1].uttid]

read_vec_int(stream) ==
    IF stream[1].kind = "rec" THEN [exc |-> None, value |-> stream[1].phones]
    ELSE [exc |-> "MalformedVector", value |-> <<>>]

\* while True: try: uttid = read_string(f) / except ValueError: break / ...
RECURSIVE RecordLoop(_, _, _, _)
RecordLoop(stream, target_dir, d, manifest) ==
    IF read_string(stream).exc = "ValueError"
    THEN [disk |-> d, manifest |-> manifest, exc |-> None]
    ELSE LET uttid == read_string(stream).value
             vec == read_vec_int(stream)
             phones == vec.value
             phn_file == UttPath(target_dir, uttid, <<".","p","h","n">>)
         IN  IF vec.exc # None
             THEN \* no handler around read_vec_int: the exception leaves the loop
                  [disk |-> d, manifest |-> manifest, exc |-> vec.exc]
             ELSE RecordLoop(Tail(stream), target_dir,
                      WriteFile(d, phn_file, [kind |-> "phn", lines |-> phones]),
                      Put(manifest, uttid, <<phn_file, Len(phones), phones>>))

\* for ali in alis: ...   (no handler here either: the exception leaves the
\* function, and the local manifest is lost with it)
RECURSIVE ArchiveLoop(_, _, _, _)
ArchiveLoop(alis, target_dir, d, manifest) ==
    IF alis = <<>> THEN [disk |-> d, manifest |-> manifest, exc |-> None]
    ELSE LET one == RecordLoop(alis[1], target_dir, d, manifest)
         IN  IF one.exc # None THEN one
             ELSE ArchiveLoop(Tail(alis), target_dir, one.disk, one.manifest)

get_alignments(alis, target_dir, d) ==
    ArchiveLoop(alis, target_dir, d, EmptyMap)

(***************************************************************************)
(* The split rule and the manifest line, as written at lines 172-175 of    *)
(* prepare_data and again at lines 194-197 of reconstruct_manifest.        *)
(***************************************************************************)
IsDevInclusive(uttid) ==
    LET code == ParseInt(Slice(uttid, 6, 11)) IN 0 <= code /\ code < 60

\* 0 < int(uttid[6:11]) < 60
IsDev(uttid) ==
    LET code == ParseInt(Slice(uttid, 6, 11)) IN 0 < code /\ code < 60

\* f"{uttid},{wav_file},{samples},{phn_file},{num_frms},{txt_file}\n"
Line(uttid, wav_file, samples, phn_file, num_frms, txt_file) ==
    [uttid |-> uttid, wav_file |-> wav_file, samples |-> samples,
     phn_file |-> phn_file, num_frms |-> num_frms, txt_file |-> txt_file]

\* open(..., "w") of both files: they exist and are empty
OpenedCsv == [exists |-> TRUE, train |-> {}, dev |-> {}]

AbsentCsv == [exists |-> FALSE, train |-> {}, dev |-> {}]

WriteLine(c, line) ==
    IF IsDev(line.uttid)
    THEN [c EXCEPT !.dev = @ \cup {line}]
    ELSE [c EXCEPT !.train = @ \cup {line}]

(***************************************************************************)
(* prepare_data.  The calls that would bind train_wav_manifest (line 157)  *)
(* and phn_manifest (line 159) are commented out, and no global of the     *)
(* module has either name: evaluating train_wav_manifest.items() at line   *)
(* 164 raises NameError, after both files were opened for writing.         *)
(***************************************************************************)
\* the names bound when line 164 is reached
PrepareDataBound == {"train_txt_manifest"}

\* lines 164-175: for k, v in train_wav_manifest.items(): ...
RECURSIVE JoinLoop(_, _, _, _, _)
JoinLoop(keys, train_wav_manifest, train_txt_manifest, phn_manifest, c) ==
    IF keys = {} THEN c
    ELSE LET k == CHOOSE x \in keys : TRUE
             rest == keys \ {k}
         IN  IF k \notin DOMAIN train_txt_manifest \/ k \notin DOMAIN phn_manifest
             THEN JoinLoop(rest, train_wav_manifest, train_txt_manifest,
                           phn_manifest, c)
             ELSE JoinLoop(rest, train_wav_manifest, train_txt_manifest,
                           phn_manifest,
                           WriteLine(c, Line(k, train_wav_manifest[k][1],
                                             train_wav_manifest[k][2],
                                             phn_manifest[k][1], phn_manifest[k][2],
                                             train_txt_manifest[k][1])))

\* wav and phn stand for the objects the two unbound names would denote
prepare_data(lines, target_dir, d, c, wav, phn) ==
    LET txt == get_transcripts(lines, target_dir, d)
    IN  IF txt.exc # None
        THEN [disk |-> txt.disk, csv |-> c, exc |-> txt.exc]
        ELSE IF ~({"train_wav_manifest", "phn_manifest"} \subseteq PrepareDataBound)
             THEN [disk |-> txt.disk, csv |-> OpenedCsv, exc |-> "NameError"]
             ELSE [disk |-> txt.disk,
                   csv |-> JoinLoop(DOMAIN wav, wav, txt.manifest, phn, OpenedCsv),
                   exc |-> None]

(***************************************************************************)
(* reconstruct_manifest.  Every phn file of the model has at least one     *)
(* line (get_num_lines cannot mmap an empty file).  The order of glob()    *)
(* is the order of the lines, which the line sets do not record.           *)
(***************************************************************************)
EndsWith(s, suffix) ==
    Len(s) >= Len(suffix)
    /\ SubSeq(s, Len(s) - Len(suffix) + 1, Len(s)) = suffix

StartsWith(s, prefix) ==
    Len(s) >= Len(prefix) /\ SubSeq(s, 1, Len(prefix)) = prefix

\* Path(target_dir).glob("**/*.wav")
GlobWav(target_dir, d) ==
    {q \in DOMAIN d : StartsWith(q, target_dir \o <<"/">>)
                      /\ EndsWith(q, <<".","w","a","v">>)}

\* the index of the last occurrence of c in s, 0 if there is none
LastIndex(s, c) ==
    IF c \in Range(s)
    THEN CHOOSE i \in DOMAIN s : s[i] = c /\ \A j \in (i + 1)..Len(s) : s[j] # c
    ELSE 0

\* Path.stem: the last component without its last suffix
Stem(path) ==
    LET name == SubSeq(path, LastIndex(path, "/") + 1, Len(path))
        dot == LastIndex(name, ".")
    IN  IF dot > 1 THEN SubSeq(name, 1, dot - 1) ELSE name

\* str(wav_file).replace("wav", ext)
Sibling(wav_file, ext) == Replace(wav_file, <<"w","a","v">>, ext)

RECURSIVE ReconstructLoop(_, _, _)
ReconstructLoop(wavs, d, c) ==
    IF wavs = {} THEN c
    ELSE LET wav_file == CHOOSE x \in wavs : TRUE
             rest == wavs \ {wav_file}
             uttid == Stem(wav_file)
             txt_file == Sibling(wav_file, <<"t","x","t">>)
             phn_file == Sibling(wav_file, <<"p","h","n">>)
         IN  IF txt_file \notin DOMAIN d \/ phn_file \notin DOMAIN d
             THEN ReconstructLoop(rest, d, c)
             ELSE ReconstructLoop(rest, d,
                      WriteLine(c, Line(uttid, wav_file, d[wav_file].nframes,
                                        phn_file, Len(d[phn_file].lines),
                                        txt_file)))

reconstruct_manifest(target_dir, d) ==
    ReconstructLoop(GlobWav(target_dir, d), d, OpenedCsv)

(***************************************************************************)
(* class Aspire.  A manifest file is the sequence of its lines; the fields *)
(* samples and num_frms are the integers that int(e[2]) and int(e[4])      *)
(* read back from the decimal text the pipeline wrote.  An instance is     *)
(* [state, mode, data_size, entries, entry_frames, exc]; state is "new"    *)
(* before __init__ ran, "built" when it returned, "failed" when it raised. *)
(***************************************************************************)
Modes == {"train_sup", "train_unsup", "train", "dev", "test"}

\* data_size=1e30: larger than any manifest
DATA_SIZE_DEFAULT == 1000000000

\* the class attributes entries = list() and entry_frames = list()
ClassEntries == <<>>

ClassEntryFrames == <<>>

NewView == [state |-> "new", mode |-> None, data_size |-> 0,
            entries |-> ClassEntries, entry_frames |-> ClassEntryFrames,
            exc |-> None]

KeepLongInclusive(e) == _samples2frames(e.samples) >= 100

\* _samples2frames(int(e[2])) > 100
KeepLong(e) == _samples2frames(e.samples) > 100

\* self.entries = [e for e in self.entries if ...]
Filtered(manifest) == SelectSeq(manifest, KeepLong)

Min(a, b) == IF a < b THEN a ELSE b

\* size = min(self.data_size, len(manifest))
SampleSize(data_size, manifest) == Min(data_size, Len(manifest))

\* random.sample(population, k): the lists it can return, for 0 <= k <= len
Samples(population, k) ==
    {[i \in 1..k |-> population[pick[i]]] :
        pick \in {q \in [1..k -> DOMAIN population] :
                     \A i, j \in 1..k : i # j => q[i] # q[j]}}

EntryFramesLabelsOnly(mode, entries) ==
    [i \in DOMAIN entries |-> entries[i].num_frms]

EntryFrames(mode, entries) ==
    IF mode = "train_unsup"
    THEN [i \in DOMAIN entries |-> _samples2frames(entries[i].samples)]
    ELSE [i \in DOMAIN entries |-> entries[i].num_frms]

(***************************************************************************)
(* Aspire.__getitem__ after the audio transform returned `tensors` and the *)
(* label transform returned `targets`; a zero frame is 0.                  *)
(***************************************************************************)
Reconcile(tensors, targets) ==
    LET l0 == Len(tensors)
        l1 == Len(targets)
    IN  IF l0 > l1
        THEN [tensors |-> SubSeq(tensors, 1, l1), targets |-> targets, exc |-> None]
        ELSE IF l0 < l1
             THEN IF l0 = 0
                  THEN \* torch.zeros_like(tensors[0]) on an empty list
                       [tensors |-> tensors, targets |-> targets,
                        exc |-> "IndexError"]
                  ELSE [tensors |-> tensors \o [i \in 1..(l1 - l0) |-> 0],
                        targets |-> targets, exc |-> None]
             ELSE [tensors |-> tensors, targets |-> targets, exc |-> None]

(***************************************************************************)
(* The inputs the specifications draw from.                                *)
(***************************************************************************)
MaxTime == 6        \* segment times 0..MaxTime, in units of 1/TimeDen s
MaxFrames == 10     \* getnframes() of a decoded recording
MaxTextLen == 2     \* length of a raw transcript over TextAlphabet
MaxPhones == 2      \* frames of one alignment record
MaxLines == 3       \* lines of the train manifest
MaxAudio == 4       \* frames the audio transform returns
MaxLabels == 3      \* frames the label transform returns

\* an utterance id: a six-character prefix, then a five-digit code
MkId(code) == <<"f","e","_","0","3","_">> \o code

Id0 == MkId(<<"0","0","0","0","0">>)

Id30 == MkId(<<"0","0","0","3","0">>)

Id60 == MkId(<<"0","0","0","6","0">>)

Id200 == MkId(<<"0","0","2","0","0">>)

IdOrder == <<Id0, Id30, Id60, Id200>>

UttIds == Range(IdOrder)

\* DATA_ROOT = (Path(__file__).parent / "data" / "aspire").resolve(): it
\* depends on where the package is installed
Roots == {<<"/","d">>, <<"/","w","a","v","s">>}

Rates == {1, 3}

Hello == <<"H","e","l","l","o",","," ","W","o","r","l","d","!"," ","1","2","3">>

TextAlphabet == {"A", "b", ",", " ", "1", "'"}

RawTexts == {Hello} \cup UNION {[1..n -> TextAlphabet] : n \in 0..MaxTextLen}

TextLine(uttid, raw) == uttid \o <<" ">> \o raw \o <<"\n">>

Phones(n) == [i \in 1..n |-> i]

IdleProbe == [s1 |-> 0, s2 |-> 0, f1 |-> 0, f2 |-> 0, done |-> FALSE]

IdleTables == [root |-> <<"/","d">>, segments |-> <<>>, wavscp |-> <<>>,
               header |-> [fr |-> 1, nf |-> 0], text |-> <<>>,
               archives |-> <<>>, manifests |-> EmptyMap]

IdleRet == [fn |-> None, exc |-> None]

IdleSession == [wav |-> EmptyMap, txt |-> EmptyMap, phn |-> EmptyMap]

Views == {1, 2}

IdleViews == [v \in Views |-> NewView]

IdleResult == [called |-> FALSE, view |-> 0, index |-> 0, mode |-> None,
               audio |-> <<>>, labels |-> <<>>,
               tensors |-> <<>>, targets |-> <<>>, exc |-> None]

UnitParams ==
    {x \in Params : x.WINDOW_SIZE = 1 /\ x.WINDOW_SHIFT = 1}

(***************************************************************************)
(* The pipeline functions as actions.  session holds what the calls        *)
(* returned to their caller.                                               *)
(***************************************************************************)
SplitWav ==
    LET r == split_wav(tables.segments, tables.wavscp, tables.header,
                       tables.root, disk)
    IN  /\ disk' = r.disk
        /\ session' = [session EXCEPT !.wav = r.manifest]
        /\ ret' = [fn |-> "split_wav", exc |-> r.exc]
        /\ UNCHANGED <<p, probe, tables, csv, views, result>>

GetTranscripts ==
    LET r == get_transcripts(tables.text, tables.root, disk)
    IN  /\ disk' = r.disk
        /\ session' = IF r.exc = None THEN [session EXCEPT !.txt = r.manifest]
                      ELSE session
        /\ ret' = [fn |-> "get_transcripts", exc |-> r.exc]
        /\ UNCHANGED <<p, probe, tables, csv, views, result>>

GetAlignments ==
    LET r == get_alignments(tables.archives, tables.root, disk)
    IN  /\ disk' = r.disk
        /\ session' = IF r.exc = None THEN [session EXCEPT !.phn = r.manifest]
                      ELSE session
        /\ ret' = [fn |-> "get_alignments", exc |-> r.exc]
        /\ UNCHANGED <<p, probe, tables, csv, views, result>>

\* prepare_data(DATA_ROOT)
PrepareData ==
    LET r == prepare_data(tables.text, tables.root, disk, csv,
                          session.wav, session.phn)
    IN  /\ disk' = r.disk
        /\ csv' = r.csv
        /\ ret' = [fn |-> "prepare_data", exc |-> r.exc]
        /\ UNCHANGED <<p, probe, tables, session, views, result>>

\* reconstruct_manifest(DATA_ROOT)
ReconstructManifest ==
    /\ csv' = reconstruct_manifest(tables.root, disk)
    /\ ret' = [fn |-> "reconstruct_manifest", exc |-> None]
    /\ UNCHANGED <<p, probe, tables, disk, session, views, result>>

(***************************************************************************)
(* Spec: the whole pipeline on a fresh target directory.  Every utterance  *)
(* has one of five profiles: which of the three Kaldi inputs mention it.   *)
(***************************************************************************)
Profiles == {"all", "no_audio", "no_text", "no_align", "text_only"}

HasAudio(prof, u) == prof[u] \in {"all", "no_text", "no_align"}

HasText(prof, u) == prof[u] \in {"all", "no_audio", "no_align", "text_only"}

HasAlign(prof, u) == prof[u] \in {"all", "no_audio", "no_text"}

ProfileTables(root, prof) ==
    LET audio == SelectSeq(IdOrder, LAMBDA u : HasAudio(prof, u))
        text == SelectSeq(IdOrder, LAMBDA u : HasText(prof, u))
        align == SelectSeq(IdOrder, LAMBDA u : HasAlign(prof, u))
    IN  [root |-> root,
         segments |-> [i \in DOMAIN audio |->
                          [uttid |-> audio[i], wavid |-> "w1",
                           start |-> 2 * i, end |-> 2 * i + 2]],
         wavscp |-> <<"w1">>,
         header |-> [fr |-> 1, nf |-> MaxFrames],
         text |-> [i \in DOMAIN text |-> TextLine(text[i], <<"h","i">>)],
         archives |-> <<[i \in DOMAIN align |->
                          [kind |-> "rec", uttid |-> align[i],
                           phones |-> Phones(MaxPhones)]]>>,
         manifests |-> EmptyMap]

\* at most two utterances are missing from some input
ProfileChoices ==
    {prof \in [UttIds -> Profiles] :
        Cardinality({u \in UttIds : prof[u] # "all"}) <= 2}

Init ==
    /\ p \in {x \in UnitParams : x.FRAME_MARGIN = 1}
    /\ probe = IdleProbe
    /\ tables \in {ProfileTables(root, prof) :
                      root \in Roots, prof \in ProfileChoices}
    /\ disk = EmptyMap
    /\ ret = IdleRet
    /\ csv = AbsentCsv
    /\ session = IdleSession
    /\ views = IdleViews
    /\ result = IdleResult

Next ==
    \/ SplitWav
    \/ GetTranscripts
    \/ GetAlignments
    \/ PrepareData
    \/ ReconstructManifest

Spec == Init /\ [][Next]_vars

(***************************************************************************)
(* SpecSegments: split_wav on one recording, segment times on a grid of    *)
(* 1/TimeDen seconds.  The second segment, when there is one, belongs to   *)
(* the same recording or to one that wav.scp does not list.                *)
(***************************************************************************)
SegmentTables ==
    {[IdleTables EXCEPT
        !.segments = <<[uttid |-> Id30, wavid |-> "w1",
                        start |-> a, end |-> b]>> \o second,
        !.wavscp = <<"w1">>,
        !.header = [fr |-> fr, nf |-> nf]] :
        a \in 0..MaxTime, b \in 0..MaxTime, fr \in Rates,
        nf \in (MaxFrames - 2)..MaxFrames,
        second \in {<<>>,
                    <<[uttid |-> Id60, wavid |-> "w1", start |-> 2, end |-> 4]>>,
                    <<[uttid |-> Id200, wavid |-> "w2", start |-> 2, end |-> 4]>>}}

InitSegments ==
    /\ p \in UnitParams
    /\ probe = IdleProbe
    /\ tables \in {t \in SegmentTables : t.segments[1].start <= t.segments[1].end}
    /\ disk = EmptyMap
    /\ ret = IdleRet
    /\ csv = AbsentCsv
    /\ session = IdleSession
    /\ views = IdleViews
    /\ result = IdleResult

NextSegments == SplitWav

SpecSegments == InitSegments /\ [][NextSegments]_vars

(***************************************************************************)
(* SpecText: get_transcripts on a text table of one or two lines.          *)
(***************************************************************************)
InitText ==
    /\ p \in {x \in UnitParams : x.FRAME_MARGIN = 1}
    /\ probe = IdleProbe
    /\ tables \in {[IdleTables EXCEPT !.text = <<TextLine(Id30, raw)>> \o second] :
                      raw \in RawTexts,
                      second \in {<<>>, <<TextLine(Id60, <<"a","-","B">>)>>}}
    /\ disk = EmptyMap
    /\ ret = IdleRet
    /\ csv = AbsentCsv
    /\ session = IdleSession
    /\ views = IdleViews
    /\ result = IdleResult

NextText == GetTranscripts

SpecText == InitText /\ [][NextText]_vars

(***************************************************************************)
(* SpecAlign: get_alignments on one or two archives of up to two records,  *)
(* each record well-formed or truncated.                                   *)
(***************************************************************************)
Records(uttid) ==
    {[kind |-> "rec", uttid |-> uttid, phones |-> Phones(n)] : n \in 1..MaxPhones}
    \cup {[kind |-> "bad", uttid |-> uttid]}

Streams(u1, u2) ==
    {<<>>} \cup {<<r>> : r \in Records(u1)}
           \cup {<<r1, r2>> : r1 \in Records(u1), r2 \in Records(u2)}

InitAlign ==
    /\ p \in {x \in UnitParams : x.FRAME_MARGIN = 1}
    /\ probe = IdleProbe
    /\ tables \in {[IdleTables EXCEPT !.archives = alis] :
                      alis \in {<<s1>> : s1 \in Streams(Id30, Id60)}
                         \cup {<<s1, s2>> : s1 \in Streams(Id30, Id60),
                                             s2 \in Streams(Id200, Id0)}}
    /\ disk = EmptyMap
    /\ ret = IdleRet
    /\ csv = AbsentCsv
    /\ session = IdleSession
    /\ views = IdleViews
    /\ result = IdleResult

NextAlign == GetAlignments

SpecAlign == InitAlign /\ [][NextAlign]_vars

(***************************************************************************)
(* SpecFrames: _samples2frames on two sample counts s1 <= s2.              *)
(***************************************************************************)
ProbeFrames ==
    /\ ~probe.done
    /\ probe' = [probe EXCEPT !.f1 = _samples2frames(probe.s1),
                              !.f2 = _samples2frames(probe.s2),
                              !.done = TRUE]
    /\ UNCHANGED <<p, tables, disk, ret, csv, session, views, result>>

InitFrames ==
    /\ p \in Params
    /\ probe \in {[IdleProbe EXCEPT !.s1 = a, !.s2 = b] :
                     a \in 0..MaxProbeSamples, b \in 0..MaxProbeSamples}
    /\ probe.s1 <= probe.s2
    /\ tables = IdleTables
    /\ disk = EmptyMap
    /\ ret = IdleRet
    /\ csv = AbsentCsv
    /\ session = IdleSession
    /\ views = IdleViews
    /\ result = IdleResult

NextFrames == ProbeFrames

SpecFrames == InitFrames /\ [][NextFrames]_vars

(***************************************************************************)
(* Aspire.__init__ (with _load_manifest) and Aspire.__getitem__ as         *)
(* actions.  The choice random.sample makes is the action's                *)
(* nondeterminism.                                                         *)
(***************************************************************************)
\* a class-level binding: every instance reads the lists last loaded
SetSelfShared(vs, v, rec) ==
    [w \in DOMAIN vs |->
        IF w = v THEN rec
        ELSE [vs[w] EXCEPT !.entries = rec.entries,
                           !.entry_frames = rec.entry_frames]]

\* self.<attribute> = ...: binds the attributes of the instance v only
SetSelf(vs, v, rec) == [vs EXCEPT ![v] = rec]

Construct(v, mode, data_size) ==
    /\ views[v].state = "new"
    /\ mode \in Modes                       \* assert mode in [...]
    /\ IF mode \notin DOMAIN tables.manifests
       THEN \* no manifest file: sys.exit(1)
            views' = [views EXCEPT ![v] =
                         [@ EXCEPT !.state = "failed", !.mode = mode,
                                   !.data_size = data_size,
                                   !.exc = "SystemExit"]]
       ELSE LET manifest == tables.manifests[mode]
                entries == Filtered(manifest)
                size == SampleSize(data_size, manifest)
            IN  IF size < 0 \/ size > Len(entries)
                THEN \* random.sample: sample larger than population
                     views' = SetSelf(views, v,
                                  [views[v] EXCEPT !.state = "failed",
                                                   !.mode = mode,
                                                   !.data_size = data_size,
                                                   !.entries = entries,
                                                   !.exc = "ValueError"])
                ELSE \E sample \in Samples(entries, size) :
                        views' = SetSelf(views, v,
                                     [state |-> "built", mode |-> mode,
                                      data_size |-> data_size,
                                      entries |-> sample,
                                      entry_frames |-> EntryFrames(mode, sample),
                                      exc |-> None])
    /\ UNCHANGED <<p, probe, tables, disk, ret, csv, session, result>>

\* audio: what self.transform(wav_file) returned; labels: what
\* self.target_transform(np.loadtxt(phn_file).tolist()) returned
GetItem(v, index, audio, labels) ==
    /\ views[v].state = "built"
    /\ index \in DOMAIN views[v].entries
    /\ LET r == IF views[v].mode = "train_unsup"
                THEN [tensors |-> audio, targets |-> <<>>, exc |-> None]
                ELSE Reconcile(audio, labels)
       IN  result' = [called |-> TRUE, view |-> v, index |-> index,
                      mode |-> views[v].mode,
                      audio |-> audio, labels |-> labels,
                      tensors |-> r.tensors, targets |-> r.targets,
                      exc |-> r.exc]
    /\ UNCHANGED <<p, probe, tables, disk, ret, csv, session, views>>

\* the smallest sample count whose estimated frame count is k
SamplesFor(k) == 2 * SAMPLE_MARGIN + WIN_SAMP_SIZE + WIN_SAMP_SHIFT * (k - 1)

ManifestLine(i, k) ==
    Line(IdOrder[i], UttPath(IdleTables.root, IdOrder[i], <<".","w","a","v">>),
         SamplesFor(k),
         UttPath(IdleTables.root, IdOrder[i], <<".","p","h","n">>), 100 + i,
         UttPath(IdleTables.root, IdOrder[i], <<".","t","x","t">>))

ViewParams ==
    {x \in Params : x.WINDOW_SIZE = 2 /\ x.FRAME_MARGIN = 1 /\ x.WINDOW_SHIFT <= 2}

\* manifests of 0..MaxLines lines whose estimated frame counts are 100..102
TrainManifests ==
    UNION {{[i \in 1..n |-> ManifestLine(i, k[i])] : k \in [1..n -> 100..102]} :
              n \in 0..MaxLines}

DataSizes == (0..MaxLines) \cup {DATA_SIZE_DEFAULT}

(***************************************************************************)
(* SpecView: the construction of one view over train.csv, dev.csv or       *)
(* train_unsup.csv; test.csv and train_sup.csv do not exist.               *)
(***************************************************************************)
InitView ==
    /\ p \in ViewParams
    /\ probe = IdleProbe
    /\ tables \in {[IdleTables EXCEPT !.manifests =
                       [m \in {"train", "dev", "train_unsup"} |->
                           IF m = "train" THEN train
                           ELSE IF m = "dev"
                                THEN <<ManifestLine(1, 100), ManifestLine(4, 101)>>
                                ELSE <<ManifestLine(2, 102), ManifestLine(3, 101)>>]] :
                      train \in TrainManifests}
    /\ disk = EmptyMap
    /\ ret = IdleRet
    /\ csv = AbsentCsv
    /\ session = IdleSession
    /\ views = IdleViews
    /\ result = IdleResult

NextView == \E mode \in Modes, data_size \in DataSizes : Construct(1, mode, data_size)

SpecView == InitView /\ [][NextView]_vars

(***************************************************************************)
(* SpecAccess: __getitem__ on a view over a manifest of two long records,  *)
(* for every length of the audio and of the label sequence.                *)
(***************************************************************************)
AudioOf(a) == [i \in 1..a |-> i]

LabelsOf(l) == [i \in 1..l |-> 40 + i]

InitAccess ==
    /\ p \in ViewParams
    /\ probe = IdleProbe
    /\ tables = [IdleTables EXCEPT !.manifests =
                    [m \in {"train", "train_unsup"} |->
                        <<ManifestLine(2, 102), ManifestLine(3, 101)>>]]
    /\ disk = EmptyMap
    /\ ret = IdleRet
    /\ csv = AbsentCsv
    /\ session = IdleSession
    /\ views = IdleViews
    /\ result = IdleResult

NextAccess ==
    \/ \E mode \in {"train", "train_unsup"}, data_size \in {1, DATA_SIZE_DEFAULT} :
          Construct(1, mode, data_size)
    \/ \E index \in 1..2, a \in 0..MaxAudio, l \in 0..MaxLabels :
          GetItem(1, index, AudioOf(a), LabelsOf(l))

SpecAccess == InitAccess /\ [][NextAccess]_vars

(***************************************************************************)
(* SpecViews: two views open at once over train.csv, dev.csv and           *)
(* train_unsup.csv, as the training script builds a train and a dev view,  *)
(* with constructions and __getitem__ calls interleaved in any order.      *)
(***************************************************************************)
InitViews ==
    /\ p \in ViewParams
    /\ probe = IdleProbe
    /\ tables = [IdleTables EXCEPT !.manifests =
                    [m \in {"train", "dev", "train_unsup"} |->
                        IF m = "train"
                        THEN <<ManifestLine(2, 102), ManifestLine(3, 101)>>
                        ELSE IF m = "dev"
                             THEN <<ManifestLine(1, 101), ManifestLine(4, 102)>>
                             ELSE <<ManifestLine(2, 101), ManifestLine(3, 102)>>]]
    /\ disk = EmptyMap
    /\ ret = IdleRet
    /\ csv = AbsentCsv
    /\ session = IdleSession
    /\ views = IdleViews
    /\ result = IdleResult

NextViews ==
    \/ \E v \in Views, mode \in Modes, data_size \in {1, DATA_SIZE_DEFAULT} :
          Construct(v, mode, data_size)
    \/ \E v \in Views, index \in 1..2, a \in {1, 3} :
          GetItem(v, index, AudioOf(a), LabelsOf(2))

SpecViews == InitViews /\ [][NextViews]_vars

(***************************************************************************)
(* Properties.                                                             *)
(***************************************************************************)
\* what the three stages return for the Kaldi inputs of this state
AudioManifest ==
    split_wav(tables.segments, tables.wavscp, tables.header,
              tables.root, EmptyMap).manifest

TextManifest == get_transcripts(tables.text, tables.root, EmptyMap).manifest

AlignManifest == get_alignments(tables.archives, tables.root, EmptyMap).manifest

JoinIds == (DOMAIN AudioManifest) \cap (DOMAIN TextManifest) \cap (DOMAIN AlignManifest)

CsvIds(lines) == {l.uttid : l \in lines}

CodeOf(uttid) == ParseInt(SubSeq(uttid, 7, 11))

\* C1: once prepare_data has run, the utterance ids written to train.csv and
\* dev.csv together are exactly the ids present in all three manifests (the
\* audio, the text and the alignment manifest of the inputs).
C1_InnerJoin ==
    ret.fn = "prepare_data" => CsvIds(csv.train \cup csv.dev) = JoinIds

\* C2: every record a manifest builder joined is written to exactly one of
\* dev.csv and train.csv: to dev.csv if and only if the numeric code at
\* characters [6:11) of its id satisfies 0 < code < 60 (code 30 goes to dev,
\* codes 0, 60 and 200 go to train).
C2_SplitRule ==
    /\ \A l \in csv.dev : 0 < CodeOf(l.uttid) /\ CodeOf(l.uttid) < 60
    /\ \A l \in csv.train : ~(0 < CodeOf(l.uttid) /\ CodeOf(l.uttid) < 60)
    /\ CsvIds(csv.dev) \cap CsvIds(csv.train) = {}
    /\ CsvIds(csv.dev) \subseteq {Id30}
    /\ CsvIds(csv.train) \subseteq {Id0, Id60, Id200}
    /\ ret.fn = "reconstruct_manifest" =>
          \A w \in GlobWav(tables.root, disk) :
             (/\ Sibling(w, <<"t","x","t">>) \in DOMAIN disk
              /\ Sibling(w, <<"p","h","n">>) \in DOMAIN disk)
             => Cardinality({l \in csv.dev \cup csv.train : l.wav_file = w}) = 1

C2_Witness ==
    /\ ret.fn = "reconstruct_manifest"
    /\ CsvIds(csv.dev) = {Id30}
    /\ CsvIds(csv.train) = {Id0, Id60, Id200}

\* the rational num / den, den > 0, rounded toward zero, down and up
Truncated(num, den) ==
    CHOOSE q \in -300..300 :
        /\ (num >= 0 => q >= 0 /\ q * den <= num /\ num < (q + 1) * den)
        /\ (num < 0 => q <= 0 /\ q * den >= num /\ num > (q - 1) * den)

Floor(num, den) == CHOOSE q \in -300..300 : q * den <= num /\ num < (q + 1) * den

Ceil(num, den) == CHOOSE q \in -300..300 : (q - 1) * den < num /\ num <= q * den

\* a segment of a listed recording with sample range [fs, fe) was emitted
\* as one clip of fe - fs samples when it fits, and not at all otherwise
SegmentOutcome(g, fs, fe) ==
    LET wav_file == UttPath(tables.root, g.uttid, <<".","w","a","v">>)
    IN  IF g.wavid \in Range(tables.wavscp) /\ fs >= 0 /\ fe <= tables.header.nf
        THEN /\ g.uttid \in DOMAIN session.wav
             /\ session.wav[g.uttid] = <<wav_file, fe - fs>>
             /\ wav_file \in DOMAIN disk
             /\ disk[wav_file] = [kind |-> "wav", nframes |-> fe - fs]
        ELSE /\ g.uttid \notin DOMAIN session.wav
             /\ wav_file \notin DOMAIN disk

\* C3 (as amended): with fs = int(rate*start - marginSamples) and
\* fe = int(rate*end + marginSamples), both rounded toward zero, every segment
\* with fs >= 0 and fe <= totalSamples yields exactly one clip and one manifest
\* entry of fe - fs samples, and every other segment yields neither.
C3_SegmentsTruncated ==
    ret.fn = "split_wav" =>
        \A i \in DOMAIN tables.segments :
            LET g == tables.segments[i]
                fr == tables.header.fr
            IN  SegmentOutcome(g,
                    Truncated(fr * g.start - SAMPLE_MARGIN * TimeDen, TimeDen),
                    Truncated(fr * g.end + SAMPLE_MARGIN * TimeDen, TimeDen))

\* C3 (as claimed): the same with fs = floor(rate*start) - marginSamples and
\* fe = ceil(rate*end) + marginSamples.
C3_SegmentsFloorCeil ==
    ret.fn = "split_wav" =>
        \A i \in DOMAIN tables.segments :
            LET g == tables.segments[i]
                fr == tables.header.fr
            IN  SegmentOutcome(g,
                    Floor(fr * g.start, TimeDen) - SAMPLE_MARGIN,
                    Ceil(fr * g.end, TimeDen) + SAMPLE_MARGIN)

C3_Witness ==
    /\ ret.fn = "split_wav"
    /\ (tables.header.fr * tables.segments[1].end) % TimeDen # 0
    /\ Id30 \in DOMAIN session.wav
    /\ Len(tables.segments) = 2
    /\ tables.segments[2].uttid \notin DOMAIN session.wav

\* C4: every supervised access returns an audio sequence of exactly as many
\* frames as there are labels, and the labels untouched: the first l frames
\* when the audio is longer, the audio followed by zero frames when shorter,
\* for every audio length a >= 0 and label length l >= 0.
C4_Reconcile ==
    (result.called /\ result.mode # "train_unsup") =>
        LET a == Len(result.audio)
            l == Len(result.labels)
        IN  /\ result.exc = None
            /\ Len(result.tensors) = l
            /\ result.targets = result.labels
            /\ a > l => result.tensors = SubSeq(result.audio, 1, l)
            /\ a < l => result.tensors = result.audio \o [i \in 1..(l - a) |-> 0]

\* the estimated frame count of a manifest line, by the closed form
EstimatedFrames(e) ==
    Floor(e.samples - 2 * SAMPLE_MARGIN - WIN_SAMP_SIZE, WIN_SAMP_SHIFT) + 1

LongLines(manifest) ==
    {manifest[i] : i \in {j \in DOMAIN manifest : EstimatedFrames(manifest[j]) > 100}}

\* C5: the construction of a view over an existing manifest succeeds; with a
\* maximum size smaller than the number of records that survive the filter
\* the view holds exactly that many records, distinct and drawn from the
\* filtered set, and otherwise it holds every filtered record.
C5_Subsample ==
    \A v \in Views :
        (views[v].state # "new" /\ views[v].mode \in DOMAIN tables.manifests) =>
            LET long == LongLines(tables.manifests[views[v].mode])
                held == views[v].entries
            IN  /\ views[v].state = "built"
                /\ Range(held) \subseteq long
                /\ Cardinality(Range(held)) = Len(held)
                /\ Len(held) = Min(views[v].data_size, Cardinality(long))

\* C6: every record a constructed view holds has an estimated frame count of
\* at least 101; a manifest record of 100 frames or fewer is never held; and
\* with no maximum size every record of 101 frames or more is held.
C6_Filter ==
    \A v \in Views :
        views[v].state = "built" =>
            LET manifest == tables.manifests[views[v].mode]
                held == Range(views[v].entries)
            IN  /\ \A e \in held : EstimatedFrames(e) >= 101
                /\ \A e \in Range(manifest) : EstimatedFrames(e) <= 100 => e \notin held
                /\ views[v].data_size = DATA_SIZE_DEFAULT =>
                      \A e \in Range(manifest) : EstimatedFrames(e) >= 101 => e \in held

C6_Witness ==
    \E v \in Views :
        /\ views[v].state = "built"
        /\ \E e \in Range(tables.manifests[views[v].mode]) :
              EstimatedFrames(e) = 100 /\ e \notin Range(views[v].entries)
        /\ \E e \in Range(views[v].entries) : EstimatedFrames(e) = 101

HelloCase ==
    /\ ret.fn = "get_transcripts"
    /\ tables.text[1] = TextLine(Id30, Hello)

TextOf(uttid) == session.txt[uttid][2]

FileOf(uttid) == disk[UttPath(tables.root, uttid, <<".","t","x","t">>)].text

\* C7 (as amended): the text written and recorded for the raw transcript
\* "Hello, World! 123" is "hello world " - twelve characters: the space that
\* preceded the digits is kept.
C7_HelloWorldTrailingSpace ==
    HelloCase =>
        /\ ret.exc = None
        /\ TextOf(Id30) = <<"h","e","l","l","o"," ","w","o","r","l","d"," ">>
        /\ FileOf(Id30) = <<"h","e","l","l","o"," ","w","o","r","l","d"," ","\n">>

\* C7 (as claimed): the text written and recorded for the raw transcript
\* "Hello, World! 123" is exactly the eleven characters "hello world".
C7_HelloWorld ==
    HelloCase =>
        /\ TextOf(Id30) = <<"h","e","l","l","o"," ","w","o","r","l","d">>
        /\ FileOf(Id30) = <<"h","e","l","l","o"," ","w","o","r","l","d","\n">>

C7_Witness == HelloCase /\ Id30 \in DOMAIN session.txt

WellFormed(stream) == \A i \in DOMAIN stream : stream[i].kind = "rec"

\* C8: a malformed record is fatal only for its archive: the records parsed
\* before it stay on disk, every other archive is still processed, and the
\* returned manifest holds the entries of all well-formed archives.
C8_FailureIsolation ==
    ret.fn = "get_alignments" =>
        \A a \in DOMAIN tables.archives :
            LET stream == tables.archives[a]
            IN  /\ WellFormed(stream) =>
                      \A i \in DOMAIN stream :
                          /\ stream[i].uttid \in DOMAIN session.phn
                          /\ session.phn[stream[i].uttid][3] = stream[i].phones
                /\ \A i \in DOMAIN stream :
                      (\A j \in 1..i : stream[j].kind = "rec") =>
                          UttPath(tables.root, stream[i].uttid, <<".","p","h","n">>)
                              \in DOMAIN disk

\* C9: _samples2frames is non-decreasing in the sample count for fixed window
\* size, window shift and margin, and its value is
\* floor((s - 2*margin - windowSize) / windowShift) + 1, also when the
\* numerator is negative.
C9_Monotone ==
    probe.done =>
        /\ probe.f1 <= probe.f2
        /\ probe.f1 = Floor(probe.s1 - 2 * SAMPLE_MARGIN - WIN_SAMP_SIZE,
                            WIN_SAMP_SHIFT) + 1
        /\ probe.f2 = Floor(probe.s2 - 2 * SAMPLE_MARGIN - WIN_SAMP_SIZE,
                            WIN_SAMP_SHIFT) + 1

C9_Witness ==
    /\ probe.done
    /\ probe.s1 - 2 * SAMPLE_MARGIN - WIN_SAMP_SIZE < 0
    /\ probe.s1 < probe.s2
    /\ probe.f1 < probe.f2
    /\ WIN_SAMP_SHIFT > 1

\* the stems that have a .wav, a .txt and a .phn file under the target directory
TripleStems ==
    {u \in UttIds :
        \A ext \in {<<".","w","a","v">>, <<".","t","x","t">>, <<".","p","h","n">>} :
            UttPath(tables.root, u, ext) \in DOMAIN disk}

\* C10: reconstruct_manifest emits one line for exactly the stems that have
\* all three files and routes it by 0 < code < 60, and prepare_data produces
\* the same train and dev sets for the same utterances.
C10_ReconstructEquivalent ==
    /\ ret.fn = "reconstruct_manifest" =>
          /\ CsvIds(csv.dev) = {u \in TripleStems : 0 < CodeOf(u) /\ CodeOf(u) < 60}
          /\ CsvIds(csv.train) = {u \in TripleStems : ~(0 < CodeOf(u) /\ CodeOf(u) < 60)}
    /\ ret.fn = "prepare_data" =>
          /\ CsvIds(csv.dev) = {u \in JoinIds : 0 < CodeOf(u) /\ CodeOf(u) < 60}
          /\ CsvIds(csv.train) = {u \in JoinIds : ~(0 < CodeOf(u) /\ CodeOf(u) < 60)}

\* C12: a constructed view caches exactly one frame count per held record, in
\* the order of the records: in mode train_unsup the estimated frame count of
\* the record's sample count (more than 100), in every other mode the label
\* frame count in field 5 of the record's manifest line.
C12_FrameCache ==
    \A v \in Views :
        views[v].state = "built" =>
            LET held == views[v].entries
                cache == views[v].entry_frames
            IN  /\ DOMAIN cache = DOMAIN held
                /\ \A i \in DOMAIN held :
                      IF views[v].mode = "train_unsup"
                      THEN cache[i] = EstimatedFrames(held[i]) /\ cache[i] > 100
                      ELSE cache[i] = held[i].num_frms

C12_Witness ==
    \E v \in Views :
        /\ views[v].state = "built"
        /\ views[v].mode = "train_unsup"
        /\ Len(views[v].entries) = 2
        /\ \E i \in 1..2 : views[v].entry_frames[i] # views[v].entries[i].num_frms
        /\ views[v].entry_frames[1] # views[v].entry_frames[2]

\* the frame counts of the records `held`, as mode `mode` caches them
CacheOf(mode, held) ==
    [i \in DOMAIN held |->
        IF mode = "train_unsup" THEN EstimatedFrames(held[i])
        ELSE held[i].num_frms]

\* C11: views have independent state. A step that constructs a view gives it
\* records of the manifest of its own mode and the frame counts of those
\* records; no step changes the records or the cache of a view that is
\* already constructed (so __getitem__ leaves the records of its own view
\* alone); and a step that changes one view changes no other view.
C11_Independent ==
    [][\A v \in Views :
          /\ views[v].state = "built" => views'[v] = views[v]
          /\ (views[v].state = "new" /\ views'[v].state = "built") =>
                /\ Range(views'[v].entries) \subseteq
                      Range(tables.manifests[views'[v].mode])
                /\ views'[v].entry_frames =
                      CacheOf(views'[v].mode, views'[v].entries)
          /\ views'[v] # views[v] =>
                \A w \in Views \ {v} : views'[w] = views[w]]_vars

C11_Witness ==
    /\ views[1].state = "built" /\ views[1].mode = "train"
    /\ views[2].state = "built" /\ views[2].mode = "dev"
    /\ Len(views[1].entries) = 2 /\ Len(views[2].entries) = 2
    /\ Range(views[1].entries) \cap Range(views[2].entries) = {}
    /\ views[1].entry_frames # views[2].entry_frames
    /\ result.called /\ result.view = 1 /\ result.exc = None

====
